---- MODULE Spec2Model ----
(***************************************************************************)
(* A model of the sharded cache of src/demo/demo.go: New builds either a   *)
(* single cache node or a cacheCluster that routes every key through a     *)
(* consistent-hash dispatcher to one of its cache nodes.  The cluster's    *)
(* handlers (DelCtx, GetCtx, SetCtx, SetWithExpireCtx, TakeCtx,            *)
(* TakeWithExpireCtx) are translated from the source; the collaborators    *)
(* whose code is not in the source tree (the hash ring, the cache node,    *)
(* the single-flight barrier, the batch error) follow spec.md.             *)
(* The module also models the ServiceGroup of                              *)
(* src/core/service/servicegroup.go: Add, Start and Stop, the goroutines   *)
(* doStart runs and the threads that call stopOnce.                        *)
(***************************************************************************)
EXTENDS Integers, Sequences, FiniteSets, TLC

\* ------------------------------------------------------------- bounds
MaxNodes == 2        \* longest ClusterConf handed to New
MaxWeight == 1       \* largest weight of a node descriptor
MaxDelKeys == 3      \* longest key list handed to Del
NumVals == 2         \* distinct cached values
MaxExpire == 1       \* largest expire argument
NumCallers == 2      \* concurrent callers of Take
MaxServices == 2     \* services added to a ServiceGroup
NumStoppers == 1     \* threads that call ServiceGroup.Stop

\* Parameters of the external hash ring (spec.md 3 and 4.1).
ReplicationFactor == 1
HashSpace == 16

Keys == {"a", "b", "c"}
\* The keys the concurrent callers of Take ask for.
TakeKeys == {"a", "b"}
Vals == 1..NumVals
Weights == 0..MaxWeight
Expires == 0..MaxExpire
Callers == 1..NumCallers
NodeIds == 1..MaxNodes
NoNode == 0
Absent == 0

\* Every ClusterConf of at most MaxNodes node descriptors (their weights).
Confs == UNION {[1..n -> Weights] : n \in 0..MaxNodes}
\* Every key list of at most MaxDelKeys keys (repetitions allowed).
KeyLists == UNION {[1..n -> Keys] : n \in 0..MaxDelKeys}

\* ------------------------------------------------------------- results
\* An error value or a result, as a record of one shape.
errNotFound == "NotFound"
Nil == [kind |-> "nil", v |-> 0]
Val(v) == [kind |-> "val", v |-> v]
Err(e) == [kind |-> e, v |-> 0]
IsErr(r) == r.kind \notin {"nil", "val"}

\* errorx.BatchError.Err(): nil when nothing was added, else the composite.
BatchErr(errs) == IF errs = <<>> THEN Nil ELSE [kind |-> "Batch", v |-> Len(errs)]

\* ------------------------------------------------------------- hash ring
\* The external hash function, on keys and on virtual nodes "node#replica".
KeyHash(k) == (CASE k = "a" -> 2 [] k = "b" -> 7 [] OTHER -> 12) % HashSpace
VHash(n, r) == (5 * n + 3 * r) % HashSpace

\* The ring order: by hash, ties by node.
EntryLess(e, f) == e.hash < f.hash \/ (e.hash = f.hash /\ e.node < f.node)

RECURSIVE SortEntries(_)
SortEntries(S) ==
    IF S = {} THEN <<>>
    ELSE LET m == CHOOSE e \in S : \A f \in S \ {e} : EntryLess(e, f)
         IN <<m>> \o SortEntries(S \ {m})

Range(s) == {s[i] : i \in 1..Len(s)}

\* ConsistentHash.AddWithWeight fails with a ConfigError when weight <= 0.
AddWithWeightFails(weight) == weight <= 0

\* ConsistentHash.AddWithWeight: weight * ReplicationFactor virtual nodes,
\* replacing the node's old ones; the table stays sorted.  A failed call
\* leaves the ring as it was.
AddWithWeight(ring, node, weight) ==
    IF AddWithWeightFails(weight) THEN ring
    ELSE SortEntries({e \in Range(ring) : e.node # node}
                     \cup {[hash |-> VHash(node, r), node |-> node] :
                             r \in 0..(weight * ReplicationFactor - 1)})

\* ConsistentHash.Get: the first entry whose hash is >= the key's hash (in the
\* sorted table, the one after every entry whose hash is smaller), wrapping to
\* the first entry; NoNode only on an empty ring.
RingGet(ring, key) ==
    IF ring = <<>> THEN NoNode
    ELSE LET below == Cardinality({i \in 1..Len(ring) : ring[i].hash < KeyHash(key)})
         IN IF below = Len(ring) THEN ring[1].node ELSE ring[below + 1].node

\* TotalWeights(c): the sum of the descriptors' weights.
RECURSIVE TotalWeights(_)
TotalWeights(c) == IF c = <<>> THEN 0 ELSE c[1] + TotalWeights(Tail(c))

\* ------------------------------------------------------------- state
VARIABLES
    state,       \* "start" | "fatal" | "node" | "cluster": what New produced
    conf,        \* the ClusterConf New was called with
    dispatcher,  \* cacheCluster.dispatcher: the sorted ring
    nodes,       \* the cache nodes NewNode has constructed
    store,       \* store[n][k]: the entry of key k in node n's storage
    last,        \* the client's current call of Del/Get/Set/SetWithExpire:
                 \* its arguments, the nodes unreachable during it, its trace
    t,           \* t[c]: caller c's call of Take/TakeWithExpire
    inflight     \* the shared barrier: key -> the caller whose load is in flight

\* The ServiceGroup of src/core/service/servicegroup.go, its client's threads
\* and the goroutines it starts.
VARIABLES
    services,    \* sg.services
    once,        \* sg.stopOnce: "fresh" | "running" | "done"
    added,       \* the services handed to Add, in the order of the calls
    start,       \* the call of Start: where it is, the services it ranges over
    routine,     \* routine[s]: the goroutine doStart runs for service s
    startLog,    \* the services whose Start was invoked, in order
    stop,        \* stop[th]: thread th's call of stopOnce
    stopLog      \* the services whose Stop was invoked, in order

groupVars == <<services, once, added, start, routine, startLog, stop, stopLog>>

cacheVars == <<state, conf, dispatcher, nodes, store, last, t, inflight>>

vars == <<state, conf, dispatcher, nodes, store, last, t, inflight, groupVars>>

NoCall == [op |-> "none", keys |-> <<>>, val |-> 0, expire |-> 0,
           down |-> {}, lookups |-> <<>>, calls |-> <<>>, errs |-> <<>>,
           ret |-> Nil, changed |-> {}]

IdleTake == [pc |-> "idle", op |-> "none", key |-> "a", node |-> NoNode,
             call |-> 0, invoked |-> FALSE, wrote |-> FALSE,
             nodeRes |-> Nil, res |-> Nil]

EmptyStore == [n \in NodeIds |-> [k \in Keys |-> Absent]]

\* The services a client may add, and the threads that call stopOnce: the
\* shutdown listener that Start registers, and the callers of Stop.
Services == 1..MaxServices
Listener == 0
Stoppers == {Listener} \cup (1..NumStoppers)

IdleStart == [pc |-> "idle", snap |-> <<>>]
IdleStop == [pc |-> "idle", i |-> 0, snap |-> <<>>]

\* NewServiceGroup: no service, a stopOnce that has not run; nothing was
\* called yet.
NewServiceGroup ==
    /\ services = <<>>
    /\ once = "fresh"
    /\ added = <<>>
    /\ start = IdleStart
    /\ routine = [s \in Services |-> "none"]
    /\ startLog = <<>>
    /\ stop = [th \in Stoppers |-> IdleStop]
    /\ stopLog = <<>>

Init ==
    /\ state = "start"
    /\ conf = <<>>
    /\ dispatcher = <<>>
    /\ nodes = {}
    /\ store = EmptyStore
    /\ last = NoCall
    /\ t = [c \in Callers |-> IdleTake]
    /\ inflight = [k \in Keys |-> 0]
    /\ NewServiceGroup

\* ------------------------------------------------------------- New
\* New's guard: log.Fatal on an empty list or a total weight <= 0.
NewRefusesNoTotal(c) == Len(c) = 0
NewRefuses(c) == Len(c) = 0 \/ TotalWeights(c) <= 0

NewDispatcherNoAdd(c, i) == <<>>
RECURSIVE NewDispatcher(_, _)
\* The loop of New: one NewNode and one AddWithWeight per descriptor; the call
\* of AddWithWeight is a statement, nothing it reports is looked at.
NewDispatcher(c, i) ==
    IF i = 0 THEN <<>>
    ELSE AddWithWeight(NewDispatcher(c, i - 1), i, c[i])

New(c) ==
    /\ state = "start"
    /\ conf' = c
    /\ IF NewRefuses(c)
       THEN /\ state' = "fatal"
            /\ UNCHANGED <<dispatcher, nodes>>
       ELSE IF Len(c) = 1
       THEN /\ state' = "node"
            /\ nodes' = {1}
            /\ UNCHANGED dispatcher
       ELSE /\ state' = "cluster"
            /\ nodes' = 1..Len(c)
            /\ dispatcher' = NewDispatcher(c, Len(c))
    /\ UNCHANGED <<store, last, t, inflight, groupVars>>

\* ------------------------------------------------------------- cache node
\* The storage collaborator of the nodes in `down` is unreachable during the
\* call.  A node's Get tells "no such entry" from "storage unavailable".
NodeGet(st, n, key, down) ==
    IF n \in down THEN Err("Storage")
    ELSE IF st[n][key] = Absent THEN Err(errNotFound)
    ELSE Val(st[n][key])

\* A node's Set and SetWithExpire write through to its storage.
NodeSet(st, n, key, val, down) ==
    IF n \in down THEN [res |-> Err("Storage"), store |-> st]
    ELSE [res |-> Nil, store |-> [st EXCEPT ![n][key] = val]]

\* A node's Del removes the keys from its storage.
NodeDel(st, n, keys, down) ==
    IF n \in down THEN [res |-> Err("Storage"), store |-> st]
    ELSE [res |-> Nil,
          store |-> [st EXCEPT ![n] =
                        [k \in Keys |-> IF k \in Range(keys) THEN Absent ELSE st[n][k]]]]

\* ------------------------------------------------------------- cluster handlers
\* One delegated call, as the client's trace records it.
CallRec(n, op, keys, val, expire, res) ==
    [node |-> n, op |-> op, keys |-> keys, val |-> val, expire |-> expire, res |-> res]

\* What a handler did: the keys it resolved on the ring, the node calls it
\* made, the errors it collected, what it returned, the storage afterwards.
Out(lookups, calls, errs, ret, st) ==
    [lookups |-> lookups, calls |-> calls, errs |-> errs, ret |-> ret, store |-> st]

\* cacheCluster.GetCtx
GetCtxFirstNode(key, down) ==
    LET c == IF dispatcher = <<>> THEN NoNode ELSE dispatcher[1].node
    IN IF c = NoNode THEN Out(<<key>>, <<>>, <<>>, Err(errNotFound), store)
       ELSE LET r == NodeGet(store, c, key, down)
            IN Out(<<key>>, <<CallRec(c, "Get", <<key>>, 0, 0, r)>>, <<>>, r, store)
GetCtx(key, down) ==
    LET c == RingGet(dispatcher, key)
    IN IF c = NoNode THEN Out(<<key>>, <<>>, <<>>, Err(errNotFound), store)
       ELSE LET r == NodeGet(store, c, key, down)
            IN Out(<<key>>, <<CallRec(c, "Get", <<key>>, 0, 0, r)>>, <<>>, r, store)

\* cacheCluster.IsNotFound: errors.Is(err, cc.errNotFound).  No error of the
\* model wraps another, so this is identity with the sentinel.
IsNotFoundAnyError(err) == IsErr(err)
IsNotFound(err) == err = Err(errNotFound)

\* cacheCluster.SetCtx
SetCtx(key, val, down) ==
    LET c == RingGet(dispatcher, key)
    IN IF c = NoNode THEN Out(<<key>>, <<>>, <<>>, Err(errNotFound), store)
       ELSE LET r == NodeSet(store, c, key, val, down)
            IN Out(<<key>>, <<CallRec(c, "Set", <<key>>, val, 0, r.res)>>, <<>>,
                   r.res, r.store)

\* cacheCluster.SetWithExpireCtx
SetWithExpireCtxAsSet(key, val, expire, down) ==
    LET c == RingGet(dispatcher, key)
    IN IF c = NoNode THEN Out(<<key>>, <<>>, <<>>, Err(errNotFound), store)
       ELSE LET r == NodeSet(store, c, key, val, down)
            IN Out(<<key>>, <<CallRec(c, "Set", <<key>>, val, 0, r.res)>>, <<>>,
                   r.res, r.store)
SetWithExpireCtx(key, val, expire, down) ==
    LET c == RingGet(dispatcher, key)
    IN IF c = NoNode THEN Out(<<key>>, <<>>, <<>>, Err(errNotFound), store)
       ELSE LET r == NodeSet(store, c, key, val, down)
            IN Out(<<key>>, <<CallRec(c, "SetWithExpire", <<key>>, val, expire, r.res)>>,
                   <<>>, r.res, r.store)

\* An entry of the batch error: a key that resolved to no node (a new error
\* made with fmt.Errorf, not the sentinel), or the error of one node's batch,
\* added as the node returned it; a node's Del error surfaces the keys of the
\* batch it was given (spec.md 4.3).
RouteErrSentinel(key) == [src |-> "route", node |-> NoNode, keys |-> <<key>>, err |-> errNotFound]
RouteErr(key) == [src |-> "route", node |-> NoNode, keys |-> <<key>>, err |-> "Errorf"]
BatchFail(n, keys, res) == [src |-> "node", node |-> n, keys |-> keys, err |-> res.kind]

RECURSIVE MapRouteErr(_)
MapRouteErr(keys) ==
    IF keys = <<>> THEN <<>> ELSE <<RouteErr(Head(keys))>> \o MapRouteErr(Tail(keys))

\* The first loop of DelCtx's default case: the keys of each resolved node, in
\* the order given, and one error per key that resolved to no node.
DelGroupOverwrite(keys) ==
    LET owned(n) == SelectSeq(keys, LAMBDA k : RingGet(dispatcher, k) = n)
    IN [nodes |-> [n \in {RingGet(dispatcher, keys[i]) : i \in 1..Len(keys)} \ {NoNode}
                     |-> <<owned(n)[Len(owned(n))]>>],
        errs |-> MapRouteErr(SelectSeq(keys, LAMBDA k : RingGet(dispatcher, k) = NoNode))]
DelGroup(keys) ==
    [nodes |-> [n \in {RingGet(dispatcher, keys[i]) : i \in 1..Len(keys)} \ {NoNode}
                  |-> SelectSeq(keys, LAMBDA k : RingGet(dispatcher, k) = n)],
     errs |-> MapRouteErr(SelectSeq(keys, LAMBDA k : RingGet(dispatcher, k) = NoNode))]

\* The second loop of DelCtx's default case, over the map in iteration order
\* `order`: one delegated DelCtx per node, its error added to the batch error.
RECURSIVE DelBatchesDropErr(_, _, _, _)
DelBatchesDropErr(order, groups, down, acc) ==
    IF order = <<>> THEN acc
    ELSE LET c == Head(order)
             r == NodeDel(acc.store, c, groups[c], down)
         IN DelBatchesDropErr(Tail(order), groups, down,
                [calls |-> Append(acc.calls, CallRec(c, "Del", groups[c], 0, 0, r.res)),
                 errs |-> acc.errs,
                 store |-> r.store])
RECURSIVE DelBatchesStop(_, _, _, _)
DelBatchesStop(order, groups, down, acc) ==
    IF order = <<>> THEN acc
    ELSE LET c == Head(order)
             r == NodeDel(acc.store, c, groups[c], down)
             next == [calls |-> Append(acc.calls, CallRec(c, "Del", groups[c], 0, 0, r.res)),
                      errs |-> IF IsErr(r.res)
                               THEN Append(acc.errs, BatchFail(c, groups[c], r.res))
                               ELSE acc.errs,
                      store |-> r.store]
         IN IF IsErr(r.res) THEN next
            ELSE DelBatchesStop(Tail(order), groups, down, next)
RECURSIVE DelBatches(_, _, _, _)
DelBatches(order, groups, down, acc) ==
    IF order = <<>> THEN acc
    ELSE LET c == Head(order)
             r == NodeDel(acc.store, c, groups[c], down)
         IN DelBatches(Tail(order), groups, down,
                [calls |-> Append(acc.calls, CallRec(c, "Del", groups[c], 0, 0, r.res)),
                 errs |-> IF IsErr(r.res)
                          THEN Append(acc.errs, BatchFail(c, groups[c], r.res))
                          ELSE acc.errs,
                 store |-> r.store])

\* The iteration orders of a Go map with key set S.
Orders(S) == {p \in [1..Cardinality(S) -> S] : \A i, j \in DOMAIN p : i # j => p[i] # p[j]}

\* cacheCluster.DelCtx
DelCtxEmptyIsError(keys, down, order) ==
    IF Len(keys) = 0 THEN Out(<<>>, <<>>, <<>>, Err(errNotFound), store)
    ELSE LET g == DelGroup(keys)
             b == DelBatches(order, g.nodes, down,
                             [calls |-> <<>>, errs |-> g.errs, store |-> store])
         IN Out(keys, b.calls, b.errs, BatchErr(b.errs), b.store)
DelCtx(keys, down, order) ==
    IF Len(keys) = 0 THEN Out(<<>>, <<>>, <<>>, Nil, store)
    ELSE IF Len(keys) = 1
    THEN LET key == keys[1]
             c == RingGet(dispatcher, key)
         IN IF c = NoNode THEN Out(<<key>>, <<>>, <<>>, Err(errNotFound), store)
            ELSE LET r == NodeDel(store, c, <<key>>, down)
                 IN Out(<<key>>, <<CallRec(c, "Del", <<key>>, 0, 0, r.res)>>, <<>>,
                        r.res, r.store)
    ELSE LET g == DelGroup(keys)
             b == DelBatches(order, g.nodes, down,
                             [calls |-> <<>>, errs |-> g.errs, store |-> store])
         IN Out(keys, b.calls, b.errs, BatchErr(b.errs), b.store)

\* ------------------------------------------------------------- the client
\* The nodes the keys of a call resolve to: only their storage is contacted, so
\* only their being reachable or not can matter to the call.
Targets(keys) == {RingGet(dispatcher, keys[i]) : i \in 1..Len(keys)} \ {NoNode}

\* The client is between calls, and no Take is under way.
Quiet == last.op = "none" /\ \A c \in Callers : t[c].pc = "idle"

\* The client's record of a finished call.
Done(op, keys, val, expire, down, o) ==
    [op |-> op, keys |-> keys, val |-> val, expire |-> expire, down |-> down,
     lookups |-> o.lookups, calls |-> o.calls, errs |-> o.errs, ret |-> o.ret,
     changed |-> {<<n, k>> \in NodeIds \X Keys : o.store[n][k] # store[n][k]}]

\* cacheCluster.Del
Del(keys) ==
    /\ state = "cluster" /\ Quiet
    /\ \E order \in Orders(IF Len(keys) >= 2 THEN Targets(keys) ELSE {}) :
       \E down \in SUBSET Targets(keys) :
          LET o == DelCtx(keys, down, order)
          IN /\ last' = Done("Del", keys, 0, 0, down, o)
             /\ store' = o.store
    /\ UNCHANGED <<state, conf, dispatcher, nodes, t, inflight, groupVars>>

\* cacheCluster.Get
Get(key) ==
    /\ state = "cluster" /\ Quiet
    /\ \E down \in SUBSET Targets(<<key>>) :
          LET o == GetCtx(key, down)
          IN /\ last' = Done("Get", <<key>>, 0, 0, down, o)
             /\ store' = o.store
    /\ UNCHANGED <<state, conf, dispatcher, nodes, t, inflight, groupVars>>

\* cacheCluster.Set
Set(key, val) ==
    /\ state = "cluster" /\ Quiet
    /\ \E down \in SUBSET Targets(<<key>>) :
          LET o == SetCtx(key, val, down)
          IN /\ last' = Done("Set", <<key>>, val, 0, down, o)
             /\ store' = o.store
    /\ UNCHANGED <<state, conf, dispatcher, nodes, t, inflight, groupVars>>

\* cacheCluster.SetWithExpire
SetWithExpire(key, val, expire) ==
    /\ state = "cluster" /\ Quiet
    /\ \E down \in SUBSET Targets(<<key>>) :
          LET o == SetWithExpireCtx(key, val, expire, down)
          IN /\ last' = Done("SetWithExpire", <<key>>, val, expire, down, o)
             /\ store' = o.store
    /\ UNCHANGED <<state, conf, dispatcher, nodes, t, inflight, groupVars>>

\* The call returns to the client, which may then make its next call.
Return ==
    /\ last.op # "none"
    /\ last' = NoCall
    /\ UNCHANGED <<state, conf, dispatcher, nodes, store, t, inflight, groupVars>>

\* ------------------------------------------------------------- Take
\* What the cluster hands back to the caller of Take: the node's result.
TakeCtxReturnNotFound(r) == IF IsErr(r) THEN Err(errNotFound) ELSE r
TakeCtxReturn(r) == r
TakeWithExpireCtxReturnNotFound(r) == IF IsErr(r) THEN Err(errNotFound) ELSE r
TakeWithExpireCtxReturn(r) == r
TakeReturns(op, r) == IF op = "Take" THEN TakeCtxReturn(r) ELSE TakeWithExpireCtxReturn(r)

\* What a query function may answer: a value, or its own error.
QueryResults == {Val(v) : v \in Vals} \cup {Err("Query")}

\* The node n the cluster resolved starts its Take for caller c: it reads its
\* storage; a hit or an unreachable storage ends the call, a miss goes on to
\* the barrier.  No node (n = NoNode) ends the call with the sentinel.
TakeBegin(c, op, key, n) ==
    /\ t[c].pc = "idle"
    /\ last.op = "none"
    /\ LET begun == [IdleTake EXCEPT !.op = op, !.key = key]
       IN IF n = NoNode
          THEN t' = [t EXCEPT ![c] = [begun EXCEPT !.pc = "done", !.res = Err(errNotFound)]]
          ELSE \E down \in {{}, {n}} :
                 LET r == NodeGet(store, n, key, down)
                 IN IF r = Err(errNotFound)
                    THEN t' = [t EXCEPT ![c] = [begun EXCEPT !.pc = "miss", !.node = n]]
                    ELSE t' = [t EXCEPT ![c] = [begun EXCEPT !.pc = "done", !.node = n,
                                                   !.nodeRes = r,
                                                   !.res = TakeReturns(op, r)]]
    /\ UNCHANGED <<state, conf, dispatcher, nodes, store, last, inflight, groupVars>>

\* cacheCluster.TakeCtx
TakeCtxFirstNode(c, key) ==
    /\ state = "cluster"
    /\ TakeBegin(c, "Take", key, IF dispatcher = <<>> THEN NoNode ELSE dispatcher[1].node)
TakeCtx(c, key) ==
    /\ state = "cluster"
    /\ TakeBegin(c, "Take", key, RingGet(dispatcher, key))

\* cacheCluster.TakeWithExpireCtx
TakeWithExpireCtx(c, key) ==
    /\ state = "cluster"
    /\ TakeBegin(c, "TakeWithExpire", key, RingGet(dispatcher, key))

\* The barrier's check-and-register, one atomic step: the caller becomes the
\* loader of its key, or joins the load that is in flight for it.
CoalesceDo(c) ==
    /\ t[c].pc = "miss"
    /\ IF inflight[t[c].key] = 0
       THEN /\ inflight' = [inflight EXCEPT ![t[c].key] = c]
            /\ t' = [t EXCEPT ![c].pc = "load", ![c].call = c]
       ELSE /\ t' = [t EXCEPT ![c].pc = "wait", ![c].call = inflight[t[c].key]]
            /\ UNCHANGED inflight
    /\ UNCHANGED <<state, conf, dispatcher, nodes, store, last, groupVars>>

\* The loader runs the query; a loaded value is written to the node's storage
\* (best effort: the write may fail), an error writes nothing.  The slot of the
\* key is cleared and the call returns.
LoadKeepsSlot(c) ==
    /\ t[c].pc = "load"
    /\ \E q \in QueryResults, down \in {{}, {t[c].node}} :
          LET w == NodeSet(store, t[c].node, t[c].key, q.v, down)
              wrote == ~IsErr(q) /\ ~IsErr(w.res)
          IN /\ store' = IF wrote THEN w.store ELSE store
             /\ t' = [t EXCEPT ![c].pc = "done", ![c].invoked = TRUE,
                               ![c].wrote = wrote, ![c].nodeRes = q,
                               ![c].res = TakeReturns(t[c].op, q)]
    /\ UNCHANGED <<state, conf, dispatcher, nodes, last, inflight, groupVars>>
Load(c) ==
    /\ t[c].pc = "load"
    /\ \E q \in QueryResults, down \in {{}, {t[c].node}} :
          LET w == NodeSet(store, t[c].node, t[c].key, q.v, down)
              wrote == ~IsErr(q) /\ ~IsErr(w.res)
          IN /\ store' = IF wrote THEN w.store ELSE store
             /\ t' = [t EXCEPT ![c].pc = "done", ![c].invoked = TRUE,
                               ![c].wrote = wrote, ![c].nodeRes = q,
                               ![c].res = TakeReturns(t[c].op, q)]
    /\ inflight' = [inflight EXCEPT ![t[c].key] = 0]
    /\ UNCHANGED <<state, conf, dispatcher, nodes, last, groupVars>>

\* A caller that joined a load receives that load's result once it completed.
Wake(c) ==
    /\ t[c].pc = "wait"
    /\ t[t[c].call].pc = "done"
    /\ t' = [t EXCEPT ![c].pc = "done", ![c].nodeRes = t[t[c].call].nodeRes,
                      ![c].res = TakeReturns(t[c].op, t[t[c].call].nodeRes)]
    /\ UNCHANGED <<state, conf, dispatcher, nodes, store, last, inflight, groupVars>>

\* The call of Take returns to the caller, which may then call again.
TakeReturn(c) ==
    /\ t[c].pc = "done"
    /\ \A w \in Callers : ~(t[w].pc = "wait" /\ t[w].call = c)
    /\ t' = [t EXCEPT ![c] = IdleTake]
    /\ UNCHANGED <<state, conf, dispatcher, nodes, store, last, inflight, groupVars>>

\* ------------------------------------------------------------- ServiceGroup
\* ServiceGroup.Add: push front.
PushBack(service, svcs) == Append(svcs, service)
PushFront(service, svcs) == <<service>> \o svcs

\* The client adds its services before it starts or stops the group.
Add(service) ==
    /\ service \notin Range(added)
    /\ start.pc = "idle"
    /\ \A th \in Stoppers : stop[th].pc = "idle"
    /\ services' = PushFront(service, services)
    /\ added' = Append(added, service)
    /\ UNCHANGED <<cacheVars, once, start, routine, startLog, stop, stopLog>>

\* ServiceGroup.Start up to routineGroup.Wait: the shutdown listener is
\* registered, and doStart ranges over sg.services and runs one goroutine per
\* service.
Start ==
    /\ start.pc = "idle"
    /\ start' = [pc |-> "wait", snap |-> services]
    /\ routine' = [s \in Services |->
                      IF s \in Range(services) THEN "spawned" ELSE routine[s]]
    /\ UNCHANGED <<cacheVars, services, once, added, startLog, stop, stopLog>>

\* The goroutine of service s calls service.Start().
ServiceStart(s) ==
    /\ routine[s] = "spawned"
    /\ routine' = [routine EXCEPT ![s] = "running"]
    /\ startLog' = Append(startLog, s)
    /\ UNCHANGED <<cacheVars, services, once, added, start, stop, stopLog>>

\* service.Start() returns (or panics, which RunSafe recovers) and the
\* goroutine ends.
ServiceStartReturns(s) ==
    /\ routine[s] = "running"
    /\ routine' = [routine EXCEPT ![s] = "returned"]
    /\ UNCHANGED <<cacheVars, services, once, added, start, startLog, stop, stopLog>>

\* routineGroup.Wait (threading.RoutineGroup): every goroutine that was run
\* through the group has ended.
RoutineGroupWait(snap, r) == \A i \in 1..Len(snap) : r[snap[i]] = "returned"

\* doStart's Wait is over and Start returns.
StartReturnNoWait ==
    /\ start.pc = "wait"
    /\ start' = [start EXCEPT !.pc = "returned"]
    /\ UNCHANGED <<cacheVars, services, once, added, routine, startLog, stop, stopLog>>
StartReturn ==
    /\ start.pc = "wait"
    /\ RoutineGroupWait(start.snap, routine)
    /\ start' = [start EXCEPT !.pc = "returned"]
    /\ UNCHANGED <<cacheVars, services, once, added, routine, startLog, stop, stopLog>>

\* sg.stopOnce = syncx.Once(sg.doStop), a sync.Once: the first caller runs
\* doStop, a caller that arrives while it runs waits for it, a later caller
\* returns at once.
StopOnce(o) == IF o = "fresh" THEN "run" ELSE IF o = "running" THEN "wait" ELSE "done"

\* Thread th calls sg.stopOnce(); when it is the one to run doStop, doStop
\* starts ranging over sg.services.
StopOnceCall(th) ==
    /\ stop[th].pc = "idle"
    /\ LET d == StopOnce(once)
       IN /\ stop' = [stop EXCEPT ![th] = [pc |-> d, i |-> IF d = "run" THEN 1 ELSE 0,
                                            snap |-> IF d = "run" THEN services ELSE <<>>]]
          /\ once' = IF d = "run" THEN "running" ELSE once
    /\ UNCHANGED <<cacheVars, services, added, start, routine, startLog, stopLog>>

\* ServiceGroup.Stop, called by thread th.
StopCallsDoStop(th) ==
    /\ th # Listener
    /\ stop[th].pc = "idle"
    /\ stop' = [stop EXCEPT ![th] = [pc |-> "run", i |-> 1, snap |-> services]]
    /\ UNCHANGED <<cacheVars, services, once, added, start, routine, startLog, stopLog>>
Stop(th) == th # Listener /\ StopOnceCall(th)

\* The process is shutting down: the listener registered by Start fires.
Shutdown == start.pc # "idle" /\ StopOnceCall(Listener)

\* One iteration of doStop's loop: service.Stop() of the next service.
DoStop(th) ==
    /\ stop[th].pc = "run"
    /\ stop[th].i <= Len(stop[th].snap)
    /\ stopLog' = Append(stopLog, stop[th].snap[stop[th].i])
    /\ stop' = [stop EXCEPT ![th].i = @ + 1]
    /\ UNCHANGED <<cacheVars, services, once, added, start, routine, startLog>>

\* doStop's loop is over: stopOnce has run and the call returns.
DoStopReturn(th) ==
    /\ stop[th].pc = "run"
    /\ stop[th].i > Len(stop[th].snap)
    /\ stop' = [stop EXCEPT ![th].pc = "done"]
    /\ once' = "done"
    /\ UNCHANGED <<cacheVars, services, added, start, routine, startLog, stopLog>>

\* A caller that waited for the running doStop returns once it is over.
OnceWake(th) ==
    /\ stop[th].pc = "wait"
    /\ once = "done"
    /\ stop' = [stop EXCEPT ![th].pc = "done"]
    /\ UNCHANGED <<cacheVars, services, once, added, start, routine, startLog, stopLog>>

\* ------------------------------------------------------------- specifications
\* One client, one call at a time, of every operation of the cache; a Del
\* takes no key, one key, or two (both cases of DelCtx's switch on one key
\* and on several).
Next ==
    \/ \E c \in Confs : New(c)
    \/ \E keys \in KeyLists : Len(keys) <= 2 /\ Del(keys)
    \/ \E key \in Keys : Get(key)
    \/ \E key \in Keys, val \in Vals : Set(key, val)
    \/ \E key \in Keys, val \in Vals, expire \in Expires : SetWithExpire(key, val, expire)
    \/ Return
    \/ \E c \in Callers, key \in Keys : Quiet /\ TakeCtx(c, key)
    \/ \E c \in Callers, key \in Keys : Quiet /\ TakeWithExpireCtx(c, key)
    \/ \E c \in Callers : CoalesceDo(c)
    \/ \E c \in Callers : Load(c)
    \/ \E c \in Callers : TakeReturn(c)

Spec == Init /\ [][Next]_vars

\* One client that fills the cache (with one value: a Del does not look at
\* values) and deletes key lists of every length.
DelNext ==
    \/ \E c \in Confs : New(c)
    \/ \E key \in Keys : Set(key, 1)
    \/ \E keys \in KeyLists : Del(keys)
    \/ Return

SpecDel == Init /\ [][DelNext]_vars

\* No call of Take has completed yet.
NoneDone == \A d \in Callers : t[d].pc # "done"

\* Concurrent callers, each calling Take once on a cluster whose storage
\* starts empty, every call starting before any call has completed.
TakeNext ==
    \/ \E c \in Confs : New(c)
    \/ \E c \in Callers, key \in TakeKeys : NoneDone /\ TakeCtx(c, key)
    \/ \E c \in Callers : CoalesceDo(c)
    \/ \E c \in Callers : Load(c)
    \/ \E c \in Callers : Wake(c)

SpecTake == Init /\ [][TakeNext]_vars

\* The same, each caller calling TakeWithExpire once.
TakeWithExpireNext ==
    \/ \E c \in Confs : New(c)
    \/ \E c \in Callers, key \in TakeKeys : NoneDone /\ TakeWithExpireCtx(c, key)
    \/ \E c \in Callers : CoalesceDo(c)
    \/ \E c \in Callers : Load(c)
    \/ \E c \in Callers : Wake(c)

SpecTakeWithExpire == Init /\ [][TakeWithExpireNext]_vars

\* Every call of Take made so far has completed.
AllSettled == \A d \in Callers : t[d].pc \in {"idle", "done"}

\* Callers that call Take one after the other, each once, every call starting
\* after the calls before it have completed.
TakeAgainNext ==
    \/ \E c \in Confs : New(c)
    \/ \E c \in Callers, key \in TakeKeys : AllSettled /\ TakeCtx(c, key)
    \/ \E c \in Callers : CoalesceDo(c)
    \/ \E c \in Callers : Load(c)

SpecTakeAgain == Init /\ [][TakeAgainNext]_vars

\* A cacheCluster value whose dispatcher holds no node.  New never returns
\* one; it is the receiver the routing-failure branches of the handlers are
\* written for.
InitNoNode ==
    /\ state = "cluster"
    /\ conf = <<>>
    /\ dispatcher = <<>>
    /\ nodes = {}
    /\ store = EmptyStore
    /\ last = NoCall
    /\ t = [c \in Callers |-> IdleTake]
    /\ inflight = [k \in Keys |-> 0]
    /\ NewServiceGroup

\* Every operation of the cache, called on that cluster.
NoNodeNext ==
    \/ \E keys \in KeyLists : Del(keys)
    \/ \E key \in Keys : Get(key)
    \/ \E key \in Keys, val \in Vals : Set(key, val)
    \/ \E key \in Keys, val \in Vals, expire \in Expires : SetWithExpire(key, val, expire)
    \/ Return
    \/ \E c \in Callers, key \in Keys : TakeCtx(c, key)
    \/ \E c \in Callers, key \in Keys : TakeWithExpireCtx(c, key)
    \/ \E c \in Callers : TakeReturn(c)

SpecNoNode == InitNoNode /\ [][NoNodeNext]_vars

\* A ServiceGroup, the client that adds services and starts it, the threads
\* that stop it, and a shutdown of the process.
GroupNext ==
    \/ \E s \in Services : Add(s)
    \/ Start
    \/ \E s \in Services : ServiceStart(s)
    \/ \E s \in Services : ServiceStartReturns(s)
    \/ StartReturn
    \/ \E th \in Stoppers : Stop(th)
    \/ Shutdown
    \/ \E th \in Stoppers : DoStop(th)
    \/ \E th \in Stoppers : DoStopReturn(th)
    \/ \E th \in Stoppers : OnceWake(th)

SpecGroup == Init /\ [][GroupNext]_vars

\* ------------------------------------------------------------- properties
\* The node the ring resolves for a key.
Route(key) == RingGet(dispatcher, key)

\* The keys of a list that the ring resolves to node n, in the list's order.
KeysOf(keys, n) == SelectSeq(keys, LAMBDA k : Route(k) = n)

\* C1: once New has been called with an empty node list or with a total weight
\* <= 0, the program is in its fatal state: no cache node was constructed, no
\* ring was built, and no cache operation was served or started.
C1_NewRefusesBadConf ==
    (state # "start" /\ (Len(conf) = 0 \/ TotalWeights(conf) <= 0))
    => /\ state = "fatal"
       /\ nodes = {}
       /\ dispatcher = <<>>
       /\ last = NoCall
       /\ store = EmptyStore
       /\ \A c \in Callers : t[c] = IdleTake

\* C1 witness: New was refused for a non-empty list whose weights total 0.
C1_Witness == state = "fatal" /\ Len(conf) > 0 /\ TotalWeights(conf) <= 0

\* C2: a single-key operation of the cluster (Get, Set, SetWithExpire, Del of
\* one key, Take, TakeWithExpire) returns the not-found sentinel without
\* calling a node when the ring resolves no node for the key; otherwise it
\* calls exactly one node, the one the ring resolves, with the same operation,
\* key and arguments, and returns that node's result unchanged.
C2_SingleKeyDelegation ==
    /\ (last.op \in {"Get", "Set", "SetWithExpire", "Del"} /\ Len(last.keys) = 1)
       => LET key == last.keys[1]
          IN IF Route(key) = NoNode
             THEN last.ret = Err(errNotFound) /\ last.calls = <<>>
             ELSE /\ Len(last.calls) = 1
                  /\ last.calls[1].node = Route(key)
                  /\ last.calls[1].op = last.op
                  /\ last.calls[1].keys = <<key>>
                  /\ last.calls[1].val = last.val
                  /\ last.calls[1].expire = last.expire
                  /\ last.ret = last.calls[1].res
    /\ \A c \in Callers :
          t[c].pc # "idle"
          => IF Route(t[c].key) = NoNode
             THEN t[c].pc = "done" /\ t[c].node = NoNode /\ t[c].res = Err(errNotFound)
             ELSE /\ t[c].node = Route(t[c].key)
                  /\ (t[c].pc = "done" => t[c].res = t[c].nodeRes)

\* C2 witness: a SetWithExpire with a positive expire was delegated to a node
\* and succeeded.
C2_Witness ==
    /\ last.op = "SetWithExpire" /\ last.expire > 0
    /\ Len(last.calls) = 1 /\ last.ret = Nil

\* C3: a Del of two or more keys makes, for every node, no call when none of
\* the keys resolves to it, and otherwise exactly one delegated Del whose key
\* list is exactly the keys of the batch that resolve to it.
C3_DelGroupsByNode ==
    (last.op = "Del" /\ Len(last.keys) >= 2)
    => \A n \in NodeIds :
          LET cs == {i \in 1..Len(last.calls) : last.calls[i].node = n}
          IN IF KeysOf(last.keys, n) = <<>>
             THEN cs = {}
             ELSE /\ Cardinality(cs) = 1
                  /\ \A i \in cs : /\ last.calls[i].op = "Del"
                                   /\ last.calls[i].keys = KeysOf(last.keys, n)

\* C3 witness: a Del of three keys made two node calls, one of them with a
\* batch of two keys.
C3_Witness ==
    /\ last.op = "Del" /\ Len(last.keys) = 3
    /\ Len(last.calls) = 2
    /\ \E i \in 1..Len(last.calls) : Len(last.calls[i].keys) = 2

\* The entries of the batch error that come from node n's batch.
NodeEntries(n) == {i \in 1..Len(last.errs) : last.errs[i].src = "node" /\ last.errs[i].node = n}
\* The entries of the batch error that report key k as resolving to no node.
RouteEntries(k) == {i \in 1..Len(last.errs) : last.errs[i].src = "route" /\ last.errs[i].keys = <<k>>}

\* C4: a Del of two or more keys returns success exactly when every key
\* resolved to a node and every node's delegated Del succeeded; the composite
\* error it returns otherwise holds one entry for each key that resolved to no
\* node and one entry for each node whose batch failed, and no other entry.
C4_DelDropsNoFailure ==
    (last.op = "Del" /\ Len(last.keys) >= 2)
    => /\ last.ret = Nil
          <=> /\ \A i \in 1..Len(last.keys) : Route(last.keys[i]) # NoNode
              /\ \A i \in 1..Len(last.calls) : ~IsErr(last.calls[i].res)
       /\ last.ret = BatchErr(last.errs)
       /\ \A k \in Keys :
             Cardinality(RouteEntries(k)) =
                IF Route(k) = NoNode
                THEN Cardinality({i \in 1..Len(last.keys) : last.keys[i] = k})
                ELSE 0
       /\ \A i \in 1..Len(last.calls) :
             LET call == last.calls[i]
             IN IF IsErr(call.res)
                THEN /\ Cardinality(NodeEntries(call.node)) = 1
                     /\ \A j \in NodeEntries(call.node) :
                           /\ last.errs[j].err = call.res.kind
                           /\ last.errs[j].keys = call.keys
                ELSE NodeEntries(call.node) = {}
       /\ \A j \in 1..Len(last.errs) :
             \/ last.errs[j].src = "route"
             \/ \E i \in 1..Len(last.calls) : last.calls[i].node = last.errs[j].node

\* C4 witness: a Del of several keys in which one node's batch failed and
\* another node's batch succeeded.
C4_Witness ==
    /\ last.op = "Del" /\ Len(last.keys) >= 2
    /\ \E i, j \in 1..Len(last.calls) : IsErr(last.calls[i].res) /\ ~IsErr(last.calls[j].res)
    /\ Len(last.errs) = 1

\* The keys the composite error of the client's Del names.
NamedKeys == UNION {Range(last.errs[i].keys) : i \in 1..Len(last.errs)}

\* C5: after a Del of two or more keys, every key of the list that resolves to
\* a reachable node is deleted from that node, whatever the other nodes'
\* batches did, and the composite error names exactly the keys that resolve
\* to an unreachable node.
C5_DelPartialFailure ==
    (last.op = "Del" /\ Len(last.keys) >= 2)
    => /\ \A k \in Range(last.keys) :
             (Route(k) # NoNode /\ Route(k) \notin last.down)
             => store[Route(k)][k] = Absent
       /\ NamedKeys = {k \in Range(last.keys) : Route(k) = NoNode \/ Route(k) \in last.down}

\* C5 witness: Del(a, b, c) where a and c were cached on a reachable node and
\* only b resolves to the unreachable node: a and c are gone and the error
\* names b alone.
C5_Witness ==
    /\ last.op = "Del" /\ last.keys = <<"a", "b", "c">>
    /\ last.down = {Route("b")}
    /\ Route("a") \notin last.down /\ Route("c") \notin last.down
    /\ <<Route("a"), "a">> \in last.changed /\ <<Route("c"), "c">> \in last.changed
    /\ store[Route("b")]["b"] # Absent
    /\ NamedKeys = {"b"}

\* C6: a Del of no key returns no error, resolves no key on the ring, calls no
\* node and changes no cache entry.
C6_DelNoKeys ==
    (last.op = "Del" /\ last.keys = <<>>)
    => /\ last.ret = Nil
       /\ last.lookups = <<>>
       /\ last.calls = <<>>
       /\ last.errs = <<>>
       /\ last.changed = {}

\* C6 witness: Del() was called on a cluster that holds cached entries.
C6_Witness == last.op = "Del" /\ last.keys = <<>> /\ store # EmptyStore

\* The callers whose Take of key k ran the query.
Invokers(k) == {c \in Callers : t[c].key = k /\ t[c].invoked}

C8_SetThenGet ==
    (last.op = "Set" /\ last.ret = Nil)
    => \A down \in SUBSET Targets(last.keys) :
          LET o == GetCtx(last.keys[1], down)
          IN /\ Len(o.calls) = 1
             /\ o.calls[1].node = last.calls[1].node
             /\ o.ret = IF o.calls[1].node \in down THEN Err("Storage")
                        ELSE Val(last.val)

\* C8 witness: a Set succeeded.
C8_Witness == last.op = "Set" /\ last.ret = Nil /\ last.val = NumVals

C11_NotFoundPropagation ==
    last.op = "Get"
    => LET key == last.keys[1]
           n == Route(key)
       IN n # NoNode
          => /\ (n \notin last.down /\ store[n][key] = Absent)
                => IsErr(last.ret) /\ IsNotFound(last.ret)
             /\ n \in last.down
                => IsErr(last.ret) /\ ~IsNotFound(last.ret)
             /\ (n \notin last.down /\ store[n][key] # Absent)
                => ~IsErr(last.ret) /\ ~IsNotFound(last.ret)

\* C11 witness: with another key cached, a Get of a key that has no entry was
\* served by the second node and returned a not-found error.
C11_Witness ==
    /\ last.op = "Get" /\ store # EmptyStore
    /\ Len(last.calls) = 1 /\ last.calls[1].node = 2
    /\ IsErr(last.ret) /\ IsNotFound(last.ret)

\* How many times service s occurs in a log of calls.
Count(log, s) == Cardinality({i \in 1..Len(log) : log[i] = s})

Reverse(q) == [i \in 1..Len(q) |-> q[Len(q) + 1 - i]]

\* C12: however many threads call Stop, and whether or not the shutdown
\* listener registered by Start fires, in any interleaving, the Stop of each
\* added service is invoked at most once, and at most one thread ever runs
\* doStop.
C12_StopAtMostOnce ==
    /\ \A s \in Services : Count(stopLog, s) <= 1
    /\ Cardinality({th \in Stoppers : stop[th].i >= 1}) <= 1

\* C12 witness: the shutdown listener and a caller of Stop have both returned
\* from stopOnce on a group of several services, all of them stopped.
C12_Witness ==
    /\ stop[Listener].pc = "done"
    /\ \E th \in Stoppers \ {Listener} : stop[th].pc = "done"
    /\ Len(added) >= 2 /\ Len(stopLog) = Len(added)

\* C13: the services are stopped in the reverse of the order in which they
\* were added: what has been stopped so far is always a prefix of the
\* reversed sequence of Add calls, and once the stopping is over every added
\* service has been stopped, the last added first and the first added last.
C13_StopsInReverseAddOrder ==
    /\ Len(stopLog) <= Len(added)
    /\ stopLog = SubSeq(Reverse(added), 1, Len(stopLog))
    /\ once = "done" => stopLog = Reverse(added)

\* C13 witness: a full group, not added in the order of the services'
\* numbers, has been stopped.
C13_Witness ==
    /\ once = "done"
    /\ Len(added) = MaxServices /\ added[1] = MaxServices
    /\ stopLog[1] = added[Len(added)] /\ stopLog[Len(stopLog)] = added[1]

\* C14: in a call of ServiceGroup.Start no service's Start is invoked more
\* than once and none but an added service's, and when the call has returned,
\* the Start of every added service has been invoked exactly once and has
\* returned; the goroutines run the Starts in any order.
C14_StartBlocksUntilAllStarted ==
    /\ \A s \in Services : Count(startLog, s) <= 1
    /\ \A s \in Services : s \notin Range(added) => Count(startLog, s) = 0
    /\ start.pc = "returned"
       => \A s \in Range(added) : Count(startLog, s) = 1 /\ routine[s] = "returned"

\* C14 witness: Start has returned on a group of several services that were
\* started in the order they were added, the reverse of sg.services.
C14_Witness ==
    /\ start.pc = "returned"
    /\ Len(added) >= 2 /\ startLog = added

\* C15: the slot of a key names a load only while that load is in flight, so
\* a Take that starts after the earlier calls have completed never joins one
\* of their loads: when it finds the key missing it registers a load of its
\* own, invokes the query itself and returns what that query answered; it
\* skips the query only when its node's lookup found the entry or found the
\* storage unavailable.
C15_SlotClearedOnCompletion ==
    /\ \A k \in Keys :
          inflight[k] # 0 => t[inflight[k]].pc = "load" /\ t[inflight[k]].key = k
    /\ \A c \in Callers :
          /\ t[c].pc # "wait"
          /\ t[c].call \in {0, c}
          /\ (t[c].pc = "done" /\ t[c].call = c)
             => /\ t[c].invoked
                /\ t[c].nodeRes \in QueryResults
                /\ t[c].res = t[c].nodeRes
          /\ (t[c].pc = "done" /\ t[c].call = 0 /\ t[c].node # NoNode)
             => t[c].nodeRes.kind \in {"val", "Storage"}

\* C15 witness: two calls of Take on one key, one after the other, each ran
\* the query: one load failed, the other loaded a value.
C15_Witness ==
    \E c, d \in Callers :
       /\ c # d /\ t[c].key = t[d].key
       /\ t[c].pc = "done" /\ t[c].invoked /\ t[c].res = Err("Query")
       /\ t[d].pc = "done" /\ t[d].invoked /\ t[d].res.kind = "val"

\* C16: once New has been called with a configuration that holds a node
\* descriptor of weight <= 0, whose AddWithWeight fails, New has ended in a
\* configuration error: no cache was returned for it.
C16_Original ==
    (state # "start" /\ \E i \in 1..Len(conf) : AddWithWeightFails(conf[i]))
    => state = "fatal"

\* In a cluster the ring is not empty, every key resolves to one of the
\* cluster's nodes, and no call has taken the routing-failure branch.
RoutingNeverFails ==
    state = "cluster"
    => /\ dispatcher # <<>>
       /\ \A k \in Keys : Route(k) # NoNode /\ Route(k) \in nodes
       /\ Len(last.keys) = 1 => Len(last.calls) = 1
       /\ \A i \in 1..Len(last.keys) :
             \E j \in 1..Len(last.calls) :
                /\ last.calls[j].node = Route(last.keys[i])
                /\ last.keys[i] \in Range(last.calls[j].keys)
       /\ \A i \in 1..Len(last.errs) : last.errs[i].src # "route"
       /\ \A c \in Callers : t[c].pc # "idle" => t[c].node # NoNode

\* C17: once New has returned a cluster, no step of any cache operation
\* changes the ring, and in every state the ring is not empty, every key
\* resolves to one of the cluster's nodes, and no operation has taken the
\* routing-failure branch: a call of Get, Set, SetWithExpire or Del of one key
\* was delegated to a node, a Del of several keys recorded no unroutable key,
\* and every call of Take or TakeWithExpire reached a node.
C17_RingNeverEmpty ==
    /\ []RoutingNeverFails
    /\ [][state = "cluster" => dispatcher' = dispatcher]_vars

\* C17 witness: on a cluster one of whose descriptors has weight 0, a Del of
\* two keys was served, every key by a node.
C17_Witness ==
    /\ state = "cluster" /\ \E i \in 1..Len(conf) : conf[i] = 0
    /\ last.op = "Del" /\ Len(last.keys) = 2 /\ last.calls # <<>>
    /\ last.ret = Nil

====
